---- MODULE Spec2Model ----
(***************************************************************************)
(* Model of the E-Planet Journal backend (src/main.py, src/schemas.py).    *)
(*                                                                         *)
(* The state is the external document store (four collections), the       *)
(* process-wide connection handle `db`, the position of the process       *)
(* (module import running seed_if_needed, then serving requests), and the *)
(* last request with its response.  Every handler is one action.          *)
(*                                                                         *)
(* Conventions of the encoding                                            *)
(*   - a document is a function from field names to values;               *)
(*   - Python's None in a text field is the string None;                  *)
(*   - Optional[int] query parameters and the optional response id are    *)
(*     sets with at most one element ({} is None);                        *)
(*   - an f-string with two interpolated numbers is a Fmt record, a       *)
(*     literal text in the same field is Lit;                             *)
(*   - a store-assigned ObjectId is [oid |-> n], its str() is             *)
(*     [text |-> n]; ids are unique within a collection.                  *)
(***************************************************************************)
EXTENDS Integers, Sequences, FiniteSets, TLC

VARIABLES db, pc, editorialmember, issue, article, submission,
          runs, seedCalls, served, lastSeed, last

vars == <<db, pc, editorialmember, issue, article, submission,
          runs, seedCalls, served, lastSeed, last>>

store == <<editorialmember, issue, article, submission>>

----------------------------------------------------------------------------
(* Bounds of the model *)

\* process starts (bootstrap runs) in one behaviour
MaxRuns == 2
\* documents POST /api/submit may add in one behaviour
MaxSubmissions == 2
\* documents a failed bulk insert may leave behind
MaxPartial == 1
\* documents already in a collection when the first process starts (SpecAny)
MaxInitDocs == 3

(* Program constants *)
SeedYear == 2025
SeedVolume == 23
ArticlesPerIssue == 5
HTTP_NOT_FOUND == 404
CollectionsShown == 10

None == "None"

\* How many documents a bulk insert that fails may leave behind: none
\* (all-or-nothing) up to MaxPartial.
PartialLens == 0..MaxPartial

Min(a, b) == IF a < b THEN a ELSE b

----------------------------------------------------------------------------
(* Text values *)

Fmt(t, a, b) == [text |-> t, a |-> a, b |-> b]
Lit(t) == [text |-> t, a |-> 0, b |-> 0]

\* ", ".join(names)
Join(sep, parts) == [sep |-> sep, parts |-> parts]

ObjectId(n) == [oid |-> n]
str(x) == [text |-> x.oid]

\* dict.get(key) with the default None
Get(doc, k) == IF k \in DOMAIN doc THEN doc[k] ELSE None

WithId(doc, id) ==
  [f \in (DOMAIN doc) \cup {"_id"} |-> IF f = "_id" THEN id ELSE doc[f]]

----------------------------------------------------------------------------
(* Seed data of seed_if_needed *)

members ==
  << [role |-> "Chief Editor", name |-> "Prof. A. K. Sharma",
      designation |-> "Professor of Environmental Sciences",
      affiliation |-> "Green Earth University", country |-> "India",
      photo_url |-> "photo-1607746882042"],
     [role |-> "Editor", name |-> "Dr. Maria Lopez",
      designation |-> "Senior Research Scientist",
      affiliation |-> "Institute for Agroecology", country |-> "Spain",
      photo_url |-> "photo-1544723795"],
     [role |-> "Editor", name |-> "Dr. James O. Carter",
      designation |-> "Associate Professor",
      affiliation |-> "Midwest State University", country |-> "USA",
      photo_url |-> "photo-1502685104226"],
     [role |-> "Reviewer", name |-> "Dr. Lin Wei",
      designation |-> "Soil Scientist",
      affiliation |-> "SinoAgri Research Center", country |-> "China",
      photo_url |-> "photo-1547425260"],
     [role |-> "Reviewer", name |-> "Dr. Amina El-Sayed",
      designation |-> "Environmental Analyst",
      affiliation |-> "Cairo Institute of Technology", country |-> "Egypt",
      photo_url |-> "photo-1524504388940"] >>

issues ==
  << [year |-> SeedYear, volume |-> SeedVolume, issue |-> 1,
      title |-> "Volume 23, Issue 1 (2025)"],
     [year |-> SeedYear, volume |-> SeedVolume, issue |-> 2,
      title |-> "Volume 23, Issue 2 (2025)"] >>

SeedAuthors ==
  << [name |-> "R. Gupta", affiliation |-> "AgriTech Lab, Delhi", country |-> "India"],
     [name |-> "S. Miller", affiliation |-> "GreenFields Institute", country |-> "USA"] >>

\* One element of base_articles.  The fields no handler inspects (abstract,
\* keywords, sections, references, cover_image, affiliations, pdf_url) are
\* the same for every seeded article and are carried as `content`; the
\* citation formats interpolate the same two numbers as the title.
SeedArticle(issue_num, i) ==
  [title |-> Fmt("Sustainable Farming Practices {issue_num}.{i} for Climate Resilience", issue_num, i),
   slug |-> Fmt("sustainable-farming-{issue_num}-{i}", issue_num, i),
   authors |-> SeedAuthors,
   doi |-> None,
   year |-> SeedYear,
   volume |-> SeedVolume,
   issue |-> issue_num,
   citation_formats |-> Fmt("Gupta, R., & Miller, S. (2025). ... {issue_num}.{i} ...", issue_num, i),
   content |-> "seed article body"]

\* for issue_num in [1, 2]: for i in range(1, 6): base_articles.append(...)
base_articles ==
  [j \in 1..(2 * ArticlesPerIssue) |->
     SeedArticle(((j - 1) \div ArticlesPerIssue) + 1, ((j - 1) % ArticlesPerIssue) + 1)]

----------------------------------------------------------------------------
(* The document store (pymongo collections) *)

\* collection.count_documents({})
count_documents(coll) == Len(coll)

\* collection.insert_many(docs), ordered: the documents are inserted one
\* after the other in the order given, each with a fresh _id.
insert_many(coll, docs) ==
  coll \o [j \in 1..Len(docs) |-> WithId(docs[j], ObjectId(Len(coll) + j))]

\* An ordered insert_many that raises: the documents before the failing one
\* stay inserted (k of them; k = 0 when nothing was written).
insert_many_failed(coll, docs, k) ==
  insert_many(coll, SubSeq(docs, 1, Min(k, Len(docs) - 1)))

----------------------------------------------------------------------------
(* seed_if_needed *)

\* The store calls of seed_if_needed, in program order.  An input failAt
\* names the call that raises when it is reached (0: none raises).
CountMembers == 1
InsertMembers == 2
CountIssues == 3
InsertIssues == 4
CountArticles == 5
InsertArticles == 6
SeedSites == 0..6

\* The running state of the try block: the three collections and the call
\* that raised (0 while none has).
SeedState(em, is, ar, raised) == [em |-> em, is |-> is, ar |-> ar, raised |-> raised]

\* collection(name): None when db is None
collection(dbv, name) == IF dbv THEN name ELSE None

\* "Seed Editorial Board"
seed_editorial(st, dbv, failAt, k) ==
  IF st.raised # 0 \/ collection(dbv, "editorialmember") = None THEN st
  ELSE IF failAt = CountMembers THEN [st EXCEPT !.raised = CountMembers]
  ELSE IF count_documents(st.em) = 0
       THEN IF failAt = InsertMembers
            THEN [st EXCEPT !.em = insert_many_failed(st.em, members, k),
                            !.raised = InsertMembers]
            ELSE [st EXCEPT !.em = insert_many(st.em, members)]
       ELSE st

\* seed_issues that seeds the issues again whenever the Article collection
\* is empty.
seed_issues_with_articles(st, dbv, failAt, k) ==
  IF st.raised # 0 \/ collection(dbv, "article") = None \/ collection(dbv, "issue") = None THEN st
  ELSE IF failAt = CountIssues THEN [st EXCEPT !.raised = CountIssues]
  ELSE IF count_documents(st.is) = 0 \/ count_documents(st.ar) = 0
       THEN IF failAt = InsertIssues
            THEN [st EXCEPT !.is = insert_many_failed(st.is, issues, k),
                            !.raised = InsertIssues]
            ELSE [st EXCEPT !.is = insert_many(st.is, issues)]
       ELSE st

\* "Seed Issues and Articles", the Issue half
seed_issues(st, dbv, failAt, k) ==
  IF st.raised # 0 \/ collection(dbv, "article") = None \/ collection(dbv, "issue") = None THEN st
  ELSE IF failAt = CountIssues THEN [st EXCEPT !.raised = CountIssues]
  ELSE IF count_documents(st.is) = 0
       THEN IF failAt = InsertIssues
            THEN [st EXCEPT !.is = insert_many_failed(st.is, issues, k),
                            !.raised = InsertIssues]
            ELSE [st EXCEPT !.is = insert_many(st.is, issues)]
       ELSE st

\* seed_articles without the emptiness test: the articles are inserted on
\* every run.
seed_articles_unconditional(st, dbv, failAt, k) ==
  IF st.raised # 0 \/ collection(dbv, "article") = None \/ collection(dbv, "issue") = None THEN st
  ELSE IF failAt = InsertArticles
       THEN [st EXCEPT !.ar = insert_many_failed(st.ar, base_articles, k),
                       !.raised = InsertArticles]
       ELSE [st EXCEPT !.ar = insert_many(st.ar, base_articles)]

\* seed_articles in a try block of its own: a failure of the Issue half
\* does not keep the Article half from running.
seed_articles_own_try(st, dbv, failAt, k) ==
  IF st.raised \notin {0, CountIssues, InsertIssues}
     \/ collection(dbv, "article") = None \/ collection(dbv, "issue") = None THEN st
  ELSE IF failAt = CountArticles THEN [st EXCEPT !.raised = CountArticles]
  ELSE IF count_documents(st.ar) = 0
       THEN IF failAt = InsertArticles
            THEN [st EXCEPT !.ar = insert_many_failed(st.ar, base_articles, k),
                            !.raised = InsertArticles]
            ELSE [st EXCEPT !.ar = insert_many(st.ar, base_articles)]
       ELSE st

\* "Seed Issues and Articles", the Article half
seed_articles(st, dbv, failAt, k) ==
  IF st.raised # 0 \/ collection(dbv, "article") = None \/ collection(dbv, "issue") = None THEN st
  ELSE IF failAt = CountArticles THEN [st EXCEPT !.raised = CountArticles]
  ELSE IF count_documents(st.ar) = 0
       THEN IF failAt = InsertArticles
            THEN [st EXCEPT !.ar = insert_many_failed(st.ar, base_articles, k),
                            !.raised = InsertArticles]
            ELSE [st EXCEPT !.ar = insert_many(st.ar, base_articles)]
       ELSE st

\* The try block.
seed_try(dbv, em, is, ar, failAt, k) ==
  seed_articles(
    seed_issues(
      seed_editorial(SeedState(em, is, ar, 0), dbv, failAt, k),
      dbv, failAt, k),
    dbv, failAt, k)

\* seed_if_needed without the except clause.
seed_if_needed_uncaught(dbv, em, is, ar, failAt, k) ==
  LET r == seed_try(dbv, em, is, ar, failAt, k)
  IN  [em |-> r.em, is |-> r.is, ar |-> r.ar, raised |-> r.raised,
       escaped |-> (r.raised # 0)]

\* try: ... except Exception: pass.  `escaped` says whether an exception
\* leaves the function (and so ends the import of the module).
seed_if_needed(dbv, em, is, ar, failAt, k) ==
  LET r == seed_try(dbv, em, is, ar, failAt, k)
  IN  [em |-> r.em, is |-> r.is, ar |-> r.ar, raised |-> r.raised, escaped |-> FALSE]

Counts(em, is, ar) == <<Len(em), Len(is), Len(ar)>>

NoSeed ==
  [db |-> FALSE, raised |-> 0, pre |-> <<0, 0, 0>>, ins |-> <<0, 0, 0>>,
   afterArtFail |-> FALSE, allClean |-> TRUE, partial |-> FALSE]

NoRequest == [ep |-> "none"]

\* What a bootstrap run leaves in the history record.
SeedRecord(prev, dbv, r, em, is, ar) ==
  LET pre == Counts(em, is, ar)
      post == Counts(r.em, r.is, r.ar)
      ins == <<post[1] - pre[1], post[2] - pre[2], post[3] - pre[3]>>
  IN  [db |-> dbv,
       raised |-> r.raised,
       pre |-> pre,
       ins |-> ins,
       \* the run before this one inserted the Issue documents and its
       \* Article insertion failed
       afterArtFail |-> (prev.ins[2] = Len(issues) /\ prev.raised = InsertArticles),
       \* every run so far had a store and no failing call
       allClean |-> (prev.allClean /\ dbv /\ r.raised = 0),
       \* some failed bulk insert left documents behind
       partial |-> (prev.partial
                    \/ (r.raised = InsertMembers /\ ins[1] > 0)
                    \/ (r.raised = InsertIssues /\ ins[2] > 0)
                    \/ (r.raised = InsertArticles /\ ins[3] > 0))]

\* Line 137: the module-level call, while main.py is being imported.
Seed ==
  /\ pc = "boot"
  /\ \E failAt \in SeedSites, k \in PartialLens :
       LET r == seed_if_needed(db, editorialmember, issue, article, failAt, k)
       IN  /\ editorialmember' = r.em
           /\ issue' = r.is
           /\ article' = r.ar
           /\ pc' = IF r.escaped THEN "crashed" ELSE "serving"
           /\ lastSeed' = SeedRecord(lastSeed, db, r, editorialmember, issue, article)
  /\ seedCalls' = seedCalls + 1
  /\ UNCHANGED <<db, submission, runs, served, last>>

\* The process ends and a new one is started against the same store: the
\* connection handle is set again from the environment.
Restart ==
  /\ pc = "serving"
  /\ runs < MaxRuns
  /\ runs' = runs + 1
  /\ pc' = "boot"
  /\ db' \in BOOLEAN
  /\ seedCalls' = 0
  /\ served' = FALSE
  /\ last' = NoRequest
  /\ UNCHANGED <<editorialmember, issue, article, submission, lastSeed>>

----------------------------------------------------------------------------
(* Data access layer (database.py): get_documents and create_document *)

\* A flat equality filter: a function from the constrained fields to an
\* optional value; a document matches when each constrained field holds
\* that value.
Matches(doc, filt) ==
  \A f \in DOMAIN filt : f \in DOMAIN doc /\ {doc[f]} = filt[f]

IdToText(doc) == [doc EXCEPT !["_id"] = str(@)]

SelectMatching(coll, filt) ==
  LET Keep(d) == Matches(d, filt) IN SelectSeq(coll, Keep)

\* get_documents(collection_name, filter): raises when there is no
\* connection or the store call fails; otherwise the matching documents in
\* store order, each _id as text.
get_documents(dbv, fails, coll, filt) ==
  IF ~dbv \/ fails
  THEN [ok |-> FALSE, docs |-> <<>>]
  ELSE LET found == SelectMatching(coll, filt)
       IN  [ok |-> TRUE, docs |-> [j \in 1..Len(found) |-> IdToText(found[j])]]

NoFilter == [f \in {} |-> {}]

\* The record serialized with the fields left at None stripped.
Serialize(payload) ==
  [f \in {g \in DOMAIN payload : payload[g] # None} |-> payload[f]]

\* create_document(collection_name, record): raises when there is no
\* connection or the insert fails; otherwise inserts one document and
\* returns its new identifier as text.
create_document(dbv, fails, coll, payload) ==
  IF ~dbv \/ fails
  THEN [ok |-> FALSE, coll |-> coll, id |-> {}]
  ELSE LET oid == ObjectId(Len(coll) + 1)
       IN  [ok |-> TRUE,
            coll |-> Append(coll, WithId(Serialize(payload), oid)),
            id |-> {str(oid)}]

----------------------------------------------------------------------------
(* Sorting *)

\* The sort key of list_issues and list_articles
SortKey(x) == <<x.year, x.volume, x.issue>>

\* Python's tuple order
TupleLess(a, b) ==
  \/ a[1] < b[1]
  \/ a[1] = b[1] /\ a[2] < b[2]
  \/ a[1] = b[1] /\ a[2] = b[2] /\ a[3] < b[3]

\* x put into a sequence that is already in descending key order, after the
\* elements whose key is not smaller: equal keys keep their input order, as
\* with sorted(..., reverse=True) and list.sort(reverse=True).
RECURSIVE InsertDesc(_, _)
InsertDesc(x, s) ==
  IF s = <<>> THEN <<x>>
  ELSE IF TupleLess(SortKey(Head(s)), SortKey(x)) THEN <<x>> \o s
  ELSE <<Head(s)>> \o InsertDesc(x, Tail(s))

RECURSIVE SortDesc(_)
SortDesc(s) ==
  IF s = <<>> THEN <<>>
  ELSE InsertDesc(s[Len(s)], SortDesc(SubSeq(s, 1, Len(s) - 1)))

----------------------------------------------------------------------------
(* Route handlers: each maps its inputs and the store to a response *)

Response(status, body) == [status |-> status, body |-> body]

\* IssueResponse(year=i.get("year"), ...)
IssueResponse(i) ==
  [year |-> i.year, volume |-> i.volume, issue |-> i.issue,
   title |-> Get(i, "title"), description |-> Get(i, "description")]

IssuesFallback ==
  << [year |-> 2025, volume |-> 23, issue |-> 2,
      title |-> "Volume 23, Issue 2 (2025)", description |-> None],
     [year |-> 2025, volume |-> 23, issue |-> 1,
      title |-> "Volume 23, Issue 1 (2025)", description |-> None] >>

\* list_issues without the except clause: the failure becomes a 500.
list_issues_uncaught(dbv, fails, issueColl) ==
  LET r == get_documents(dbv, fails, issueColl, NoFilter)
  IN  IF r.ok
      THEN LET issues_sorted == SortDesc(r.docs)
           IN  Response(200, [j \in 1..Len(issues_sorted) |-> IssueResponse(issues_sorted[j])])
      ELSE Response(500, <<>>)

\* list_issues without the sort: the issues in store order.
list_issues_unsorted(dbv, fails, issueColl) ==
  LET r == get_documents(dbv, fails, issueColl, NoFilter)
  IN  IF r.ok
      THEN Response(200, [j \in 1..Len(r.docs) |-> IssueResponse(r.docs[j])])
      ELSE Response(200, IssuesFallback)

\* GET /api/issues
list_issues(dbv, fails, issueColl) ==
  LET r == get_documents(dbv, fails, issueColl, NoFilter)
  IN  IF r.ok
      THEN LET issues_sorted == SortDesc(r.docs)
           IN  Response(200, [j \in 1..Len(issues_sorted) |-> IssueResponse(issues_sorted[j])])
      ELSE Response(200, IssuesFallback)

AuthorNames(a) == [j \in 1..Len(a.authors) |-> a.authors[j].name]

IssueArticle(a) ==
  [title |-> Get(a, "title"),
   authors |-> Join(", ", AuthorNames(a)),
   doi |-> Get(a, "doi"),
   slug |-> Get(a, "slug")]

IssueInfoFallback(year, volume, issue_num) ==
  [year |-> year, volume |-> volume, issue |-> issue_num,
   articles |->
     << [title |-> Lit("Demo Article 1"),
         authors |-> Join(", ", <<"A. Author", "B. Author">>),
         doi |-> None, slug |-> Lit("demo-article-1")],
        [title |-> Lit("Demo Article 2"),
         authors |-> Join(", ", <<"C. Researcher">>),
         doi |-> None, slug |-> Lit("demo-article-2")] >>]

\* GET /api/issues/{year}/{volume}/{issue}
get_issue(dbv, fails, articleColl, year, volume, issue_num) ==
  LET filt == [f \in {"year", "volume", "issue"} |->
                 IF f = "year" THEN {year} ELSE IF f = "volume" THEN {volume} ELSE {issue_num}]
      r == get_documents(dbv, fails, articleColl, filt)
  IN  IF r.ok
      THEN Response(200, [year |-> year, volume |-> volume, issue |-> issue_num,
                          articles |-> [j \in 1..Len(r.docs) |-> IssueArticle(r.docs[j])]])
      ELSE Response(200, IssueInfoFallback(year, volume, issue_num))

ArticleCard(a) ==
  [title |-> a.title, slug |-> a.slug, authors |-> AuthorNames(a),
   doi |-> Get(a, "doi"), year |-> a.year, volume |-> a.volume, issue |-> a.issue]

ArticlesFallback ==
  << [title |-> Lit("Demo Article"), slug |-> Lit("demo-article"),
      authors |-> <<"A. Author">>, doi |-> None,
      year |-> 2025, volume |-> 23, issue |-> 1] >>

\* BuildFilter that puts every parameter into the filter, the absent ones
\* as null.
BuildFilterWithNulls(year, volume, issue_num) ==
  [f \in {"year", "volume", "issue"} |->
     IF f = "year" THEN year ELSE IF f = "volume" THEN volume ELSE issue_num]

\* filt = {}; if year is not None: filt["year"] = year; ...
BuildFilter(year, volume, issue_num) ==
  LET given == [f \in {"year", "volume", "issue"} |->
                  IF f = "year" THEN year ELSE IF f = "volume" THEN volume ELSE issue_num]
  IN  [f \in {g \in DOMAIN given : given[g] # {}} |-> given[f]]

\* GET /api/articles?year=&volume=&issue=
list_articles(dbv, fails, articleColl, year, volume, issue_num) ==
  LET filt == BuildFilter(year, volume, issue_num)
      r == get_documents(dbv, fails, articleColl, filt)
  IN  IF r.ok
      THEN Response(200, SortDesc([j \in 1..Len(r.docs) |-> ArticleCard(r.docs[j])]))
      ELSE Response(200, ArticlesFallback)

ArticleFallback(slug) ==
  [title |-> Lit("Demo Article Title"),
   slug |-> slug,
   authors |-> << [name |-> "A. Author", affiliation |-> "Demo University", country |-> "USA"] >>,
   doi |-> None,
   year |-> 2025, volume |-> 23, issue |-> 1,
   citation_formats |-> Lit("Author, A. (2025). Demo Article Title. E-Planet Journal, 23(1)."),
   content |-> "demo article body"]

\* coll.find_one({"slug": slug}): the first matching document, if any
find_one(coll, filt) ==
  LET found == SelectMatching(coll, filt)
  IN  IF found = <<>> THEN <<>> ELSE <<Head(found)>>

\* get_article without "except HTTPException: raise": the 404 is caught by
\* the except clause and answered with the fallback.
get_article_not_found_caught(dbv, fails, articleColl, slug) ==
  IF collection(dbv, "article") = None \/ fails
  THEN Response(200, ArticleFallback(slug))
  ELSE LET a == find_one(articleColl, [f \in {"slug"} |-> {slug}])
       IN  IF a = <<>>
           THEN Response(200, ArticleFallback(slug))
           ELSE Response(200, IdToText(a[1]))

\* GET /api/articles/{slug}
get_article(dbv, fails, articleColl, slug) ==
  IF collection(dbv, "article") = None \/ fails
  THEN Response(200, ArticleFallback(slug))
  ELSE LET a == find_one(articleColl, [f \in {"slug"} |-> {slug}])
       IN  IF a = <<>>
           THEN Response(HTTP_NOT_FOUND, [detail |-> "Article not found"])
           ELSE Response(200, IdToText(a[1]))

BoardFallback ==
  << [role |-> "Chief Editor", name |-> "Prof. A. K. Sharma",
      designation |-> "Professor", affiliation |-> "Green Earth University",
      country |-> "India"] >>

\* GET /api/editorial-board
editorial_board(dbv, fails, memberColl) ==
  LET r == get_documents(dbv, fails, memberColl, NoFilter)
  IN  IF r.ok THEN Response(200, r.docs) ELSE Response(200, BoardFallback)

\* submit_paper without the except clause: the failure becomes a 500.
submit_paper_uncaught(dbv, fails, submissionColl, payload) ==
  LET r == create_document(dbv, fails, submissionColl, payload)
  IN  IF r.ok
      THEN [resp |-> Response(200, [status |-> "received", id |-> r.id]), coll |-> r.coll]
      ELSE [resp |-> Response(500, [status |-> "error", id |-> {}]), coll |-> submissionColl]

\* POST /api/submit: the response and the submission collection afterwards
submit_paper(dbv, fails, submissionColl, payload) ==
  LET r == create_document(dbv, fails, submissionColl, payload)
  IN  IF r.ok
      THEN [resp |-> Response(200, [status |-> "received", id |-> r.id]), coll |-> r.coll]
      ELSE [resp |-> Response(200, [status |-> "received", id |-> {}]), coll |-> submissionColl]

\* db.list_collection_names(): the collections that hold a document
CollectionNames(em, is, ar, su) ==
  SelectSeq(<<"article", "editorialmember", "issue", "submission">>,
            LAMBDA n : \/ n = "article" /\ ar # <<>>
                       \/ n = "editorialmember" /\ em # <<>>
                       \/ n = "issue" /\ is # <<>>
                       \/ n = "submission" /\ su # <<>>)

\* GET /test (the two environment indicators are not part of the state)
test_database(dbv, fails, em, is, ar, su) ==
  LET names == CollectionNames(em, is, ar, su)
  IN  Response(200,
        [backend |-> "Running",
         database |-> IF ~dbv THEN "Available but not initialized"
                      ELSE IF fails THEN "Connected but Error"
                      ELSE "Connected & Working",
         connection_status |-> IF dbv THEN "Connected" ELSE "Not Connected",
         collections |-> IF dbv /\ ~fails
                         THEN SubSeq(names, 1, Min(Len(names), CollectionsShown))
                         ELSE <<>>])

----------------------------------------------------------------------------
(* Request inputs *)

Years == {2024, 2025}
Volumes == {23, 24}
IssueNums == {1, 2}

\* Optional[int]: absent or one value
Opt(S) == {{}} \cup {{v} : v \in S}

Slugs ==
  {SeedArticle(1, 1).slug, SeedArticle(2, 5).slug, Lit("any-slug"), Lit("soil-carbon")}

\* Valid Submission payloads: the required fields set, the optional ones
\* set or left at None.
Payloads ==
  { [title |-> "Paper", corresponding_author |-> "A. Writer", email |-> "a@x.org",
     abstract |-> ab, keywords |-> None, notes |-> None] : ab \in {None, "An abstract"} }

(* Documents that may be in the store before the first process starts *)

IssueDoc(y, v, n) ==
  [year |-> y, volume |-> v, issue |-> n, title |-> "An issue", description |-> None]

StoredIssues == {IssueDoc(2024, 23, 1), IssueDoc(2025, 23, 2), IssueDoc(2025, 23, 1)}

ArticleDoc(s, y, v, n) ==
  [title |-> Lit("An article"), slug |-> Lit(s),
   authors |-> << [name |-> "P. Author", affiliation |-> None, country |-> None] >>,
   doi |-> None, year |-> y, volume |-> v, issue |-> n,
   citation_formats |-> Lit("None"), content |-> "article body"]

StoredArticles ==
  {ArticleDoc("soil-carbon", 2025, 23, 1), ArticleDoc("river-basin", 2024, 23, 1),
   ArticleDoc("soil-carbon", 2025, 23, 2), ArticleDoc("river-basin", 2025, 24, 1)}

SeqsUpTo(S, n) == UNION {[1..m -> S] : m \in 0..n}

----------------------------------------------------------------------------
(* Actions *)

Request(ep, args, fails, r) ==
  [ep |-> ep, args |-> args, reachable |-> (db /\ ~fails),
   status |-> r.status, body |-> r.body]

\* One request is handled at a time (the handlers are synchronous and share
\* no state in the process): a handler runs when the previous response has
\* been sent.
Serve(ep, args, fails, r) ==
  /\ last = NoRequest
  /\ last' = Request(ep, args, fails, r)
  /\ served' = TRUE
  /\ UNCHANGED <<db, pc, runs, seedCalls, lastSeed>>

\* GET /
Root ==
  /\ pc = "serving"
  /\ Serve("root", <<>>, FALSE,
           Response(200, [name |-> "E-Planet Journal API", status |-> "ok"]))
  /\ UNCHANGED store

ListIssues ==
  /\ pc = "serving"
  /\ \E fails \in BOOLEAN :
       Serve("list_issues", <<>>, fails, list_issues(db, fails, issue))
  /\ UNCHANGED store

GetIssue ==
  /\ pc = "serving"
  /\ \E fails \in BOOLEAN, y \in Years, v \in Volumes, n \in IssueNums :
       Serve("get_issue", <<y, v, n>>, fails, get_issue(db, fails, article, y, v, n))
  /\ UNCHANGED store

ListArticles ==
  /\ pc = "serving"
  /\ \E fails \in BOOLEAN, y \in Opt(Years), v \in Opt(Volumes), n \in Opt(IssueNums) :
       Serve("list_articles", <<y, v, n>>, fails, list_articles(db, fails, article, y, v, n))
  /\ UNCHANGED store

\* GetArticle that writes the document with its converted _id back to the
\* collection.
GetArticleWriteBack ==
  /\ pc = "serving"
  /\ \E fails \in BOOLEAN, slug \in Slugs :
       /\ Serve("get_article", <<slug>>, fails, get_article(db, fails, article, slug))
       /\ article' = IF db /\ ~fails
                     THEN [j \in 1..Len(article) |->
                             IF article[j].slug = slug THEN IdToText(article[j]) ELSE article[j]]
                     ELSE article
  /\ UNCHANGED <<editorialmember, issue, submission>>

GetArticle ==
  /\ pc = "serving"
  /\ \E fails \in BOOLEAN, slug \in Slugs :
       Serve("get_article", <<slug>>, fails, get_article(db, fails, article, slug))
  /\ UNCHANGED store

EditorialBoard ==
  /\ pc = "serving"
  /\ \E fails \in BOOLEAN :
       Serve("editorial_board", <<>>, fails, editorial_board(db, fails, editorialmember))
  /\ UNCHANGED store

\* GET /api/guidelines
Guidelines ==
  /\ pc = "serving"
  /\ Serve("guidelines", <<>>, FALSE,
           Response(200, [peer_review_process |-> "Double-blind peer review with at least two independent reviewers.",
                          submission_email |-> "submit@e-planetjournal.org"]))
  /\ UNCHANGED store

\* GET /api/about
About ==
  /\ pc = "serving"
  /\ Serve("about", <<>>, FALSE,
           Response(200, [frequency |-> "Quarterly", issn_online |-> "XXXX-XXXX"]))
  /\ UNCHANGED store

SubmitPaper ==
  /\ pc = "serving"
  /\ Len(submission) < MaxSubmissions
  /\ \E fails \in BOOLEAN, payload \in Payloads :
       LET r == submit_paper(db, fails, submission, payload)
       IN  /\ Serve("submit_paper", <<payload>>, fails, r.resp)
           /\ submission' = r.coll
  /\ UNCHANGED <<editorialmember, issue, article>>

TestDatabase ==
  /\ pc = "serving"
  /\ \E fails \in BOOLEAN :
       Serve("test_database", <<>>, fails,
             test_database(db, fails, editorialmember, issue, article, submission))
  /\ UNCHANGED store

\* The response of the last request has been sent.
Reply ==
  /\ pc = "serving"
  /\ last # NoRequest
  /\ last' = NoRequest
  /\ UNCHANGED <<db, pc, runs, seedCalls, served, lastSeed, store>>

----------------------------------------------------------------------------
(* Specifications *)

Start ==
  /\ db \in BOOLEAN
  /\ pc = "boot"
  /\ runs = 1
  /\ seedCalls = 0
  /\ served = FALSE
  /\ lastSeed = NoSeed
  /\ last = NoRequest
  /\ editorialmember = <<>>
  /\ submission = <<>>

\* A first process started against an empty store.
Init ==
  /\ Start
  /\ issue = <<>>
  /\ article = <<>>

Next ==
  \/ Seed
  \/ Restart
  \/ Root
  \/ ListIssues
  \/ GetIssue
  \/ ListArticles
  \/ GetArticle
  \/ EditorialBoard
  \/ Guidelines
  \/ About
  \/ SubmitPaper
  \/ TestDatabase
  \/ Reply

Spec == Init /\ [][Next]_vars

\* A process started against a store that already holds Issue or Article
\* documents (any valid ones), and the read endpoints over them.
InitAny ==
  /\ Start
  /\ \/ /\ issue \in {insert_many(<<>>, s) : s \in SeqsUpTo(StoredIssues, MaxInitDocs)}
        /\ article = <<>>
     \/ /\ issue = <<>>
        /\ article \in {insert_many(<<>>, s) : s \in SeqsUpTo(StoredArticles, MaxInitDocs)}

NextAny ==
  \/ Seed
  \/ ListIssues
  \/ GetIssue
  \/ ListArticles
  \/ GetArticle
  \/ Reply

SpecAny == InitAny /\ [][NextAny]_vars

----------------------------------------------------------------------------
(* Properties *)

Triple(d) == <<d.year, d.volume, d.issue>>

\* a is after b in the order of (year, volume, issue) tuples
Greater(a, b) ==
  \/ a[1] > b[1]
  \/ a[1] = b[1] /\ a[2] > b[2]
  \/ a[1] = b[1] /\ a[2] = b[2] /\ a[3] > b[3]

Occurrences(s, x) == Cardinality({j \in 1..Len(s) : s[j] = x})

IsPrefix(s, t) == Len(s) <= Len(t) /\ SubSeq(t, 1, Len(s)) = s

FailedRead == last # NoRequest /\ ~last.reachable

\* C1: when the store is unavailable or the store call fails, GET /api/issues,
\* GET /api/issues/{year}/{volume}/{issue}, GET /api/articles and
\* GET /api/editorial-board answer 200 with the endpoint's fixed fallback;
\* for GET /api/issues that is the issues 2025/23/2 then 2025/23/1.
C1_FallbackOnFailure ==
  FailedRead =>
    /\ last.ep = "list_issues" =>
         /\ last.status = 200
         /\ last.body =
              << [year |-> 2025, volume |-> 23, issue |-> 2,
                  title |-> "Volume 23, Issue 2 (2025)", description |-> None],
                 [year |-> 2025, volume |-> 23, issue |-> 1,
                  title |-> "Volume 23, Issue 1 (2025)", description |-> None] >>
    /\ last.ep = "get_issue" =>
         /\ last.status = 200
         /\ last.body = IssueInfoFallback(last.args[1], last.args[2], last.args[3])
    /\ last.ep = "list_articles" =>
         /\ last.status = 200
         /\ last.body = ArticlesFallback
    /\ last.ep = "editorial_board" =>
         /\ last.status = 200
         /\ last.body = BoardFallback

\* GET /api/issues was answered while the connection exists and the store
\* call failed.
C1_Witness ==
  /\ last # NoRequest
  /\ last.ep = "list_issues"
  /\ db
  /\ ~last.reachable
  /\ issue # <<>>

\* C2: GET /api/articles/{slug} answers 404 "Article not found" when the
\* store is reachable and holds no article with the slug, 200 with a stored
\* document of that slug when it holds one, and 200 with the fallback
\* article carrying the requested slug when the store is unreachable.
C2_ArticleOutcomes ==
  (last # NoRequest /\ last.ep = "get_article") =>
    LET slug == last.args[1]
        held == {j \in 1..Len(article) : article[j].slug = slug}
    IN  IF ~last.reachable
        THEN /\ last.status = 200
             /\ last.body = ArticleFallback(slug)
             /\ last.body.slug = slug
        ELSE IF held = {}
        THEN /\ last.status = 404
             /\ last.body = [detail |-> "Article not found"]
        ELSE /\ last.status = 200
             /\ \E j \in held :
                  /\ last.body = [article[j] EXCEPT !["_id"] = [text |-> article[j]["_id"].oid]]
                  /\ last.body.slug = slug

\* A reachable store that holds articles, none with the requested slug.
C2_Witness ==
  /\ last # NoRequest
  /\ last.ep = "get_article"
  /\ last.reachable
  /\ article # <<>>
  /\ last.status = 404

\* C3: two bootstrap runs in sequence against an empty, reachable store
\* leave 5 members, 2 issues and 10 articles; a run against a store whose
\* three collections are all non-empty inserts nothing.
C3_SeedIdempotent ==
  /\ (runs = 2 /\ pc # "boot" /\ lastSeed.allClean) =>
       /\ Len(editorialmember) = 5
       /\ Len(issue) = 2
       /\ Len(article) = 10
  /\ (lastSeed.pre[1] > 0 /\ lastSeed.pre[2] > 0 /\ lastSeed.pre[3] > 0) =>
       lastSeed.ins = <<0, 0, 0>>

\* The second of two runs without a failure has finished.
C3_Witness ==
  /\ runs = 2
  /\ pc = "serving"
  /\ lastSeed.allClean
  /\ lastSeed.pre = <<5, 2, 10>>

SubmitStep == last = NoRequest /\ last' # NoRequest /\ last'.ep = "submit_paper"

\* C4: POST /api/submit answers 200 with status "received" whatever the
\* store does; when the insert succeeds exactly one document is added to
\* the submission collection and the response id is its identifier; when
\* the store is unavailable or the insert fails the id is null and no
\* document is added.
C4_SubmitAlwaysReceived ==
  [][SubmitStep =>
       /\ last'.status = 200
       /\ last'.body.status = "received"
       /\ IF last'.reachable
          THEN /\ Len(submission') = Len(submission) + 1
               /\ IsPrefix(submission, submission')
               /\ last'.body.id = {[text |-> submission'[Len(submission')]["_id"].oid]}
               /\ \A j \in 1..Len(submission) :
                    submission[j]["_id"] # submission'[Len(submission')]["_id"]
          ELSE /\ last'.body.id = {}
               /\ submission' = submission]_vars

\* A second submission stored, after one that was not.
C4_Witness ==
  /\ last # NoRequest
  /\ last.ep = "submit_paper"
  /\ last.reachable
  /\ Len(submission) = 2

Descending(s) == \A j \in 1..(Len(s) - 1) : ~Greater(Triple(s[j + 1]), Triple(s[j]))

StrictlyDescending(s) == \A j \in 1..(Len(s) - 1) : Greater(Triple(s[j]), Triple(s[j + 1]))

DistinctTriples(s) == \A j, k \in 1..Len(s) : Triple(s[j]) = Triple(s[k]) => j = k

ListedIssues == last # NoRequest /\ last.ep = "list_issues" /\ last.reachable

\* C5 as stated: GET /api/issues returns the stored issues with each tuple
\* (year, volume, issue) strictly greater than the next one's.
C5_StrictlyDescending ==
  ListedIssues => StrictlyDescending(last.body)

\* C5, amended: GET /api/issues returns every stored issue once, no tuple
\* smaller than the one after it; the order is strict when no two stored
\* issues share a tuple.
C5_Descending ==
  ListedIssues =>
    /\ Len(last.body) = Len(issue)
    /\ \A j \in 1..Len(issue) :
         Occurrences(last.body, IssueResponse(issue[j]))
           = Occurrences([k \in 1..Len(issue) |-> IssueResponse(issue[k])], IssueResponse(issue[j]))
    /\ Descending(last.body)
    /\ DistinctTriples(issue) => StrictlyDescending(last.body)

\* Three stored issues that were not in descending order, listed.
C5_Witness ==
  /\ ListedIssues
  /\ Len(issue) = 3
  /\ DistinctTriples(issue)
  /\ ~Descending(issue)

Wanted(d, args) ==
  /\ args[1] # {} => args[1] = {d.year}
  /\ args[2] # {} => args[2] = {d.volume}
  /\ args[3] # {} => args[3] = {d.issue}

IsCardOf(c, d) ==
  /\ c.title = d.title
  /\ c.slug = d.slug
  /\ c.doi = d.doi
  /\ c.year = d.year /\ c.volume = d.volume /\ c.issue = d.issue
  /\ Len(c.authors) = Len(d.authors)
  /\ \A j \in 1..Len(c.authors) : c.authors[j] = d.authors[j].name

ListedArticles == last # NoRequest /\ last.ep = "list_articles" /\ last.reachable

\* C6: GET /api/articles returns a card for exactly the stored articles
\* whose year, volume and issue equal the parameters that were supplied; a
\* parameter that is not supplied constrains nothing.
C6_FilterExact ==
  ListedArticles =>
    LET wanted == {j \in 1..Len(article) : Wanted(article[j], last.args)}
    IN  /\ Len(last.body) = Cardinality(wanted)
        /\ \A j \in wanted : \E k \in 1..Len(last.body) : IsCardOf(last.body[k], article[j])
        /\ \A k \in 1..Len(last.body) : \E j \in wanted : IsCardOf(last.body[k], article[j])

\* issue=1 alone, answered with articles of two different years while the
\* store also holds an article of another issue.
C6_Witness ==
  /\ ListedArticles
  /\ last.args = <<{}, {}, {1}>>
  /\ Len(last.body) = 2
  /\ last.body[1].year # last.body[2].year
  /\ Len(article) = 3

\* C7: while requests are served the article, issue and editorialmember
\* collections do not change; only POST /api/submit changes the submission
\* collection, and only by adding documents after the stored ones.
C7_RequestsKeepContent ==
  [][(pc = "serving" /\ pc' = "serving") =>
       /\ article' = article
       /\ issue' = issue
       /\ editorialmember' = editorialmember
       /\ IsPrefix(submission, submission')
       /\ ~SubmitStep => submission' = submission]_vars

\* A submission stored and an article fetched from a seeded store.
C7_Witness ==
  /\ last # NoRequest
  /\ last.ep = "get_article"
  /\ last.status = 200
  /\ last.reachable
  /\ Len(submission) = 1
  /\ Len(article) = 10

\* C8: the bootstrap runs once in a process, before any request is handled,
\* and no failure of it leaves the routine: the process goes on to serve.
C8_BootstrapOnceNeverRaises ==
  /\ pc \in {"boot", "serving"}
  /\ pc = "boot" => (seedCalls = 0 /\ ~served /\ last = NoRequest)
  /\ pc = "serving" => seedCalls = 1

\* A request served by a process whose bootstrap run hit a failing store
\* call.
C8_Witness ==
  /\ pc = "serving"
  /\ lastSeed.raised = InsertIssues
  /\ served
  /\ last # NoRequest

\* C9 as stated: a run after one that inserted the Issue documents and
\* failed to insert the articles inserts no Issue document and, when its
\* store calls succeed, the 10 articles.
C9_LaterRunSeedsArticles ==
  (pc # "boot" /\ lastSeed.afterArtFail) =>
    /\ lastSeed.ins[2] = 0
    /\ (lastSeed.db /\ lastSeed.raised = 0) => lastSeed.ins[3] = 10

\* C9, amended: such a run inserts no Issue document and, when its store
\* calls succeed and the failed insertion left the Article collection
\* empty, the 10 articles; when the failed insertion left articles behind
\* it inserts no article.
C9_LaterRunSeedsEmptyArticles ==
  (pc # "boot" /\ lastSeed.afterArtFail) =>
    /\ lastSeed.ins[2] = 0
    /\ (lastSeed.db /\ lastSeed.raised = 0 /\ lastSeed.pre[3] = 0) => lastSeed.ins[3] = 10
    /\ lastSeed.pre[3] > 0 => lastSeed.ins[3] = 0

\* The run after the failed Article insertion inserted the 10 articles.
C9_Witness ==
  /\ pc = "serving"
  /\ lastSeed.afterArtFail
  /\ lastSeed.pre = <<5, 2, 0>>
  /\ lastSeed.ins = <<0, 0, 10>>

\* C10: from an empty store, with every bulk insert all-or-nothing, after
\* any bootstrap runs each stored article's (year, volume, issue) is that
\* of a stored issue and no two stored articles share a slug.
C10_ArticlesHaveIssues ==
  ~lastSeed.partial =>
    /\ \A j \in 1..Len(article) : \E k \in 1..Len(issue) : Triple(article[j]) = Triple(issue[k])
    /\ \A j, k \in 1..Len(article) : article[j].slug = article[k].slug => j = k

\* Articles stored by a run that followed an aborted one.
C10_Witness ==
  /\ ~lastSeed.partial
  /\ lastSeed.afterArtFail
  /\ Len(article) = 10
  /\ pc = "serving"

====
